---- MODULE Spec2Model ----
(***************************************************************************)
(* Model of task_geo/data_sources/noaa/noaa_api_connector.py: the NOAA     *)
(* acquisition pipeline (station resolution, request batching, fetching    *)
(* with per-request failure isolation, assembly of the result table).      *)
(*                                                                         *)
(* A url is kept as the parameters it encodes (station list, dataTypes);   *)
(* the dates and the fixed arguments are the same in every url of a call.  *)
(* A JSON record is a sequence of <<key, value>> pairs, so the key order   *)
(* that decides the data frame's column order is part of the model.        *)
(***************************************************************************)
EXTENDS Integers, Sequences, FiniteSets, TLC

(* ------------------------------ bounds --------------------------------- *)

\* longest list of countries handed to noaa_api_connector
MaxCountries == 2

\* territory t1 holds up to MaxChunks * max_stations_req + 1 stations
MaxChunks == 1

(* ------------------------- program constants --------------------------- *)

max_stations_req == 50

DEFAULT_METRICS == <<"TMAX", "TMIN", "TAVG", "PCRP", "SNOW", "SNWD">>

\* the metric codes the docstrings of get_request_urls document as valid
ValidMetrics == {"TMIN", "TMAX", "TAVG", "SNOW", "SNWD", "PRCP"}

\* the fixed columns of the result table
PrefixColumns ==
    <<"DATE", "STATION", "LATITUDE", "LONGITUDE", "ELEVATION", "NAME",
      "GSN FLAG", "HCN/CRN FLAG", "WMO ID">>

(* --------------------------- reference data ---------------------------- *)

\* references.COUNTRY_AND_TERRITORY_CODES: country -> territory codes.
\* "ZZ" is a code that is not a key.
COUNTRY_AND_TERRITORY_CODES ==
    [c \in {"c1", "c2", "c3"} |->
        CASE c = "c1" -> <<"t1">>
          [] c = "c2" -> <<"t1", "t3", "t2">>
          [] c = "c3" -> <<"t3">>]

CountryCodes == DOMAIN COUNTRY_AND_TERRITORY_CODES \cup {"ZZ"}

\* station counts territory t1 may have: a small one and the ones around
\* every multiple of max_stations_req up to MaxChunks
T1Sizes ==
    {3} \cup {k * max_stations_req + d : k \in 1..MaxChunks, d \in {-1, 0, 1}}

\* territory t2 has one station less than a full request
T2Size == max_stations_req - 1

\* the stations of a territory: ids off+1 .. off+n in listed order
StationRange(off, n) == [k \in 1..n |-> off + k]

\* references.TERRITORY_ACTIVE_STATIONS_MAP for given territory sizes; t3 is
\* not a key, and t2 starts at station 3 so that it overlaps t1
StationsMap(n1) ==
    [t \in {"t1", "t2"} |->
        IF t = "t1" THEN StationRange(0, n1) ELSE StationRange(2, T2Size)]

\* load_dataset('stations'): one row per station id, ids unique; 12 and 111
\* are stations no request of the model fetches data for
StationsColumns ==
    <<"ID", "LATITUDE", "LONGITUDE", "ELEVATION", "STATE", "NAME",
      "GSN FLAG", "HCN/CRN FLAG", "WMO ID">>

MetaIds == <<11, 12, 31, 51, 71, 91, 111>>

Range(s) == {s[k] : k \in 1..Len(s)}

IndexOf(s, x) == CHOOSE k \in 1..Len(s) : s[k] = x

\* the concatenation of seqs[lo..hi]
RECURSIVE Flatten(_, _, _)
Flatten(seqs, lo, hi) ==
    IF lo > hi THEN <<>>
    ELSE IF lo = hi THEN seqs[lo]
    ELSE Flatten(seqs, lo, (lo + hi) \div 2)
         \o Flatten(seqs, (lo + hi) \div 2 + 1, hi)

Concat(seqs) == Flatten(seqs, 1, Len(seqs))

\* s without the later occurrences of its elements
FirstOccurrences(s) ==
    LET first == {k \in 1..Len(s) : \A j \in 1..(k - 1) : s[j] # s[k]}
    IN  [n \in 1..Cardinality(first) |->
            s[CHOOSE k \in first : Cardinality({j \in first : j < k}) = n - 1]]

MetaRow(id) ==
    [c \in Range(StationsColumns) |->
        IF c = "ID" THEN id ELSE id * 10 + IndexOf(StationsColumns, c)]

load_dataset_stations ==
    [columns |-> StationsColumns,
     rows    |-> [k \in 1..Len(MetaIds) |-> MetaRow(MetaIds[k])]]

(* ----------------------------- remote API ------------------------------ *)

\* the order in which the remote side writes the metric fields of a record
RemoteOrder == <<"PRCP", "SNOW", "SNWD", "TAVG", "TMAX", "TMIN">>

\* the remote snapshot: which stations have an observation, and which
\* metrics that observation carries
HasData(s) == s % 10 = 1

Avail(s, m) ==
    \/ m = "TMAX"
    \/ m = "PRCP" /\ s % 20 = 1
    \/ m = "TMIN" /\ s % 20 = 11

RemoteRecord(s, dataTypes) ==
    << <<"DATE", 1>>, <<"STATION", s>> >> \o
    [k \in 1..Len(SelectSeq(RemoteOrder,
                    LAMBDA m : m \in Range(dataTypes) /\ Avail(s, m))) |->
        << SelectSeq(RemoteOrder,
                    LAMBDA m : m \in Range(dataTypes) /\ Avail(s, m))[k],
           s * 10 + 5 >>]

\* one record per requested station that has an observation, in the order
\* the stations were requested
RemoteRecords(stations, dataTypes) ==
    [k \in 1..Len(SelectSeq(stations, HasData)) |->
        RemoteRecord(SelectSeq(stations, HasData)[k], dataTypes)]

\* the body of a 2xx response to url
RemoteBody(url) == RemoteRecords(url.stations, url.dataTypes)

\* the structured error object of a non-2xx response
ErrorBody == << <<"errorCode", 500>> >>

NoResponse == [ok |-> FALSE, json |-> <<>>]

(* ----------------------- get_stations_by_country ----------------------- *)

\* the loop of lines 50-54: extend with the stations of every code that is a
\* key of the territory map
\* a resolver that drops the stations it has already listed
ExtendStationsDedup(codes, tmap) ==
    FirstOccurrences(
        Concat([k \in 1..Len(codes) |->
                  IF codes[k] \in DOMAIN tmap THEN tmap[codes[k]] ELSE <<>>]))

RECURSIVE ExtendStations(_, _)
ExtendStations(codes, tmap) ==
    IF codes = <<>> THEN <<>>
    ELSE (IF Head(codes) \in DOMAIN tmap THEN tmap[Head(codes)] ELSE <<>>)
         \o ExtendStations(Tail(codes), tmap)

\* a resolver that answers an unknown country with no stations
get_stations_by_country_empty(country, tmap) ==
    [raised |-> FALSE,
     stations |->
        IF country \in DOMAIN COUNTRY_AND_TERRITORY_CODES
            THEN ExtendStations(COUNTRY_AND_TERRITORY_CODES[country], tmap)
            ELSE <<>>]

get_stations_by_country(country, tmap) ==
    IF country \notin DOMAIN COUNTRY_AND_TERRITORY_CODES
        THEN [raised |-> TRUE, stations |-> <<>>]
        ELSE [raised |-> FALSE,
              stations |->
                  ExtendStations(COUNTRY_AND_TERRITORY_CODES[country], tmap)]

(* --------------------------- get_request_urls -------------------------- *)

\* metrics is [isNone |-> BOOLEAN, list |-> sequence of codes]
MetricsOrDefault(metrics) ==
    IF metrics.isNone THEN DEFAULT_METRICS ELSE metrics.list

Min(a, b) == IF a < b THEN a ELSE b

\* chunks cut one station short: stations_list[i:i + max_stations_req - 1]
ChunkedStationListShort(stations_list) ==
    [j \in 1..((Len(stations_list) + max_stations_req - 1) \div max_stations_req) |->
        SubSeq(stations_list,
               (j - 1) * max_stations_req + 1,
               Min(j * max_stations_req - 1, Len(stations_list)))]

\* stations_list[i:i + max_stations_req] for i in range(0, len, max_stations_req)
ChunkedStationList(stations_list) ==
    [j \in 1..((Len(stations_list) + max_stations_req - 1) \div max_stations_req) |->
        SubSeq(stations_list,
               (j - 1) * max_stations_req + 1,
               Min(j * max_stations_req, Len(stations_list)))]

MakeUrl(stations, metrics) ==
    [stations |-> stations, dataTypes |-> MetricsOrDefault(metrics)]

BuildUrls(stations_list, metrics) ==
    IF Len(stations_list) < max_stations_req
        THEN <<MakeUrl(stations_list, metrics)>>
        ELSE [j \in 1..Len(ChunkedStationList(stations_list)) |->
                MakeUrl(ChunkedStationList(stations_list)[j], metrics)]

get_request_urls(country, metrics, tmap) ==
    BuildUrls(get_stations_by_country(country, tmap).stations, metrics)

(* ------------------------- pandas data frames -------------------------- *)

\* a frame is [columns |-> sequence of names, rows |-> sequence of functions
\* from the column names to values]; NaN marks a missing value
NaN == 0 - 1

Keys(record) == [k \in 1..Len(record) |-> record[k][1]]

Field(record, c) ==
    IF c \in Range(Keys(record)) THEN record[IndexOf(Keys(record), c)][2]
    ELSE NaN

\* the keys of records[lo..hi] in order of first appearance
RECURSIVE FrameColumnsOf(_, _, _)
FrameColumnsOf(records, lo, hi) ==
    IF lo > hi THEN <<>>
    ELSE IF lo = hi THEN Keys(records[lo])
    ELSE LET left  == FrameColumnsOf(records, lo, (lo + hi) \div 2)
             right == FrameColumnsOf(records, (lo + hi) \div 2 + 1, hi)
         IN  left \o SelectSeq(right, LAMBDA c : c \notin Range(left))

FrameColumns(records) == FrameColumnsOf(records, 1, Len(records))

\* pd.DataFrame(list of dicts): the columns are the keys in order of first
\* appearance, a key a record lacks is NaN in its row
DataFrame(records) ==
    LET columns == FrameColumns(records)
    IN  [columns |-> columns,
         rows    |-> [r \in 1..Len(records) |->
                        [c \in Range(columns) |-> Field(records[r], c)]]]

\* the rows a left row yields in an inner join
MergedRowsInner(l, right, left_on, right_on) ==
    [k \in 1..Len(SelectSeq(right.rows,
                          LAMBDA r : r[right_on] = l[left_on])) |->
        l @@ SelectSeq(right.rows, LAMBDA r : r[right_on] = l[left_on])[k]]

\* the rows a left row yields in a left join: one per matching right row, in
\* the right frame's order, or one filled with NaN when nothing matches
MergedRows(l, right, left_on, right_on) ==
    IF SelectSeq(right.rows, LAMBDA r : r[right_on] = l[left_on]) = <<>>
        THEN << l @@ [c \in Range(right.columns) |-> NaN] >>
        ELSE [k \in 1..Len(SelectSeq(right.rows,
                              LAMBDA r : r[right_on] = l[left_on])) |->
                l @@ SelectSeq(right.rows,
                              LAMBDA r : r[right_on] = l[left_on])[k]]

MergeRows(rows, right, left_on, right_on) ==
    Concat([r \in 1..Len(rows) |-> MergedRows(rows[r], right, left_on, right_on)])

\* left.merge(right, how='left', left_on=..., right_on=...); a key column the
\* frame lacks is a KeyError. (No column name of the records is a column of
\* the stations frame, so no suffix is ever added.)
merge(left, right, left_on, right_on) ==
    IF left_on \notin Range(left.columns) \/ right_on \notin Range(right.columns)
        THEN [raised |-> TRUE, data |-> left]
        ELSE [raised |-> FALSE,
              data |-> [columns |-> left.columns \o right.columns,
                        rows |-> MergeRows(left.rows, right, left_on, right_on)]]

\* del data[c]
DelColumn(data, c) ==
    [columns |-> SelectSeq(data.columns, LAMBDA x : x # c),
     rows    |-> [r \in 1..Len(data.rows) |->
                    [x \in Range(data.columns) \ {c} |-> data.rows[r][x]]]]

\* data[columns]; a name that is no column is a KeyError
SelectColumns(data, columns) ==
    IF ~ (Range(columns) \subseteq Range(data.columns))
        THEN [raised |-> TRUE, data |-> data]
        ELSE [raised |-> FALSE,
              data |-> [columns |-> columns,
                        rows |-> [r \in 1..Len(data.rows) |->
                                    [x \in Range(columns) |-> data.rows[r][x]]]]]

\* the present metrics in the order of the frame's columns
MetricColumnsFrameOrder(metrics, data) ==
    SelectSeq(data.columns, LAMBDA m : m \in Range(MetricsOrDefault(metrics)))

\* the metrics appended to the fixed columns (line 198)
MetricColumns(metrics, data) ==
    SelectSeq(MetricsOrDefault(metrics), LAMBDA m : m \in Range(data.columns))

\* lines 183-199 of noaa_api_connector
Assemble(records, metrics) ==
    LET merged == merge(DataFrame(records), load_dataset_stations, "STATION", "ID")
    IN  IF merged.raised THEN merged
        ELSE LET data == DelColumn(DelColumn(merged.data, "ID"), "STATE")
             IN  SelectColumns(data, PrefixColumns \o MetricColumns(metrics, data))

(* ------------------------------- state --------------------------------- *)

VARIABLES
    countries,                      \* argument of noaa_api_connector
    metrics,                        \* argument of noaa_api_connector
    TERRITORY_ACTIVE_STATIONS_MAP,  \* reference data
    pc,                             \* "country", "get", "status", "done", "raised"
    country_idx,                    \* position of the for loop of line 171
    stations_list,                  \* get_request_urls: the resolved stations
    urls,                           \* get_parse_response: its argument
    i,                              \* get_parse_response: urls handled so far
    response,                       \* get_parse_response: the response in hand
    results,                        \* get_parse_response: records accumulator
    errors,                         \* get_parse_response: errors accumulator
    result,                         \* noaa_api_connector: records of all countries
    log,                            \* the requests the remote side has answered
    exc,                            \* the exception the call raised, or "None"
    ret                             \* the values the call returned, <<>> before

vars == <<countries, metrics, TERRITORY_ACTIVE_STATIONS_MAP, pc, country_idx,
          stations_list, urls, i, response, results, errors, result, log, exc, ret>>

inputs == <<countries, metrics, TERRITORY_ACTIVE_STATIONS_MAP>>

MetricsChoices ==
    { [isNone |-> TRUE,  list |-> <<>>],
      [isNone |-> FALSE, list |-> <<"SNOW", "TMAX", "PRCP">>] }

Init ==
    /\ countries \in UNION {[1..n -> CountryCodes] : n \in 0..MaxCountries}
    /\ metrics \in MetricsChoices
    /\ \E n1 \in T1Sizes : TERRITORY_ACTIVE_STATIONS_MAP = StationsMap(n1)
    /\ pc = "country"
    /\ country_idx = 1
    /\ stations_list = <<>>
    /\ urls = <<>>
    /\ i = 0
    /\ response = NoResponse
    /\ results = <<>>
    /\ errors = <<>>
    /\ result = <<>>
    /\ log = <<>>
    /\ exc = "None"
    /\ ret = <<>>

(* ------------------------------ actions -------------------------------- *)

\* lines 171-173, 96, 46-48: the next country is no key of the country map
CountryRaises ==
    /\ pc = "country"
    /\ country_idx <= Len(countries)
    /\ get_stations_by_country(countries[country_idx],
                               TERRITORY_ACTIVE_STATIONS_MAP).raised
    /\ pc' = "raised"
    /\ exc' = "ValueError"
    /\ UNCHANGED <<inputs, country_idx, stations_list, urls, i, response, results, errors,
                   result, log, ret>>

\* lines 171-174, 129-132: the urls of the next country are built and
\* get_parse_response is entered
CountryRequests ==
    /\ pc = "country"
    /\ country_idx <= Len(countries)
    /\ ~ get_stations_by_country(countries[country_idx],
                                 TERRITORY_ACTIVE_STATIONS_MAP).raised
    /\ stations_list' = get_stations_by_country(countries[country_idx],
                                TERRITORY_ACTIVE_STATIONS_MAP).stations
    /\ urls' = get_request_urls(countries[country_idx], metrics,
                                TERRITORY_ACTIVE_STATIONS_MAP)
    /\ results' = <<>>
    /\ errors' = <<>>
    /\ i' = 0
    /\ pc' = "get"
    /\ UNCHANGED <<inputs, country_idx, response, result, log, exc, ret>>

\* lines 133-135: requests.get(url) is answered, 2xx or not
RequestsGet ==
    /\ pc = "get"
    /\ i < Len(urls)
    /\ \E ok \in BOOLEAN :
        /\ response' = [ok |-> ok,
                        json |-> IF ok THEN RemoteBody(urls[i + 1]) ELSE ErrorBody]
        /\ log' = Append(log, [country |-> country_idx, url |-> urls[i + 1],
                               ok |-> ok])
    /\ pc' = "status"
    /\ UNCHANGED <<inputs, country_idx, stations_list, urls, i, results, errors, result, exc, ret>>

\* line 135: requests.get(url) raises (a transport failure); nothing catches it
RequestsGetRaises ==
    /\ pc = "get"
    /\ i < Len(urls)
    /\ pc' = "raised"
    /\ exc' = "ConnectionError"
    /\ UNCHANGED <<inputs, country_idx, stations_list, urls, i, response, results, errors,
                   result, log, ret>>

\* a handler that leaves the loop at the first HTTPError
HandleHTTPErrorAbort ==
    /\ pc = "status"
    /\ ~ response.ok
    /\ errors' = Append(errors, [url |-> urls[i + 1], error |-> response.json])
    /\ i' = Len(urls)
    /\ response' = NoResponse
    /\ pc' = "get"
    /\ UNCHANGED <<inputs, country_idx, stations_list, urls, results, result,
                   log, exc, ret>>

\* a handler that issues the failed request again
HandleHTTPErrorRetry ==
    /\ pc = "status"
    /\ ~ response.ok
    /\ errors' = Append(errors, [url |-> urls[i + 1], error |-> response.json])
    /\ response' = NoResponse
    /\ pc' = "get"
    /\ UNCHANGED <<inputs, country_idx, stations_list, urls, i, results,
                   result, log, exc, ret>>

\* lines 136-143: raise_for_status raises HTTPError
HandleHTTPError ==
    /\ pc = "status"
    /\ ~ response.ok
    /\ errors' = Append(errors, [url |-> urls[i + 1], error |-> response.json])
    /\ i' = i + 1
    /\ response' = NoResponse
    /\ pc' = "get"
    /\ UNCHANGED <<inputs, country_idx, stations_list, urls, results, result, log, exc, ret>>

\* lines 136-137, 145
HandleSuccess ==
    /\ pc = "status"
    /\ response.ok
    /\ results' = results \o response.json
    /\ i' = i + 1
    /\ response' = NoResponse
    /\ pc' = "get"
    /\ UNCHANGED <<inputs, country_idx, stations_list, urls, errors, result, log, exc, ret>>

\* lines 147, 174-181: get_parse_response returns, the errors are logged and
\* the records extend result
ParseReturn ==
    /\ pc = "get"
    /\ i = Len(urls)
    /\ result' = result \o results
    /\ country_idx' = country_idx + 1
    /\ pc' = "country"
    /\ UNCHANGED <<inputs, stations_list, urls, i, response, results, errors, log, exc, ret>>

\* lines 183-199: the table is built and returned
AssembleReturn ==
    /\ pc = "country"
    /\ country_idx > Len(countries)
    /\ LET data == Assemble(result, metrics)
       IN  /\ ~ data.raised
           /\ ret' = <<data.data>>
    /\ pc' = "done"
    /\ UNCHANGED <<inputs, country_idx, stations_list, urls, i, response, results, errors,
                   result, log, exc>>

\* lines 183-199: the merge or the column selection raises KeyError
AssembleRaises ==
    /\ pc = "country"
    /\ country_idx > Len(countries)
    /\ Assemble(result, metrics).raised
    /\ pc' = "raised"
    /\ exc' = "KeyError"
    /\ UNCHANGED <<inputs, country_idx, stations_list, urls, i, response, results, errors,
                   result, log, ret>>

Next ==
    \/ CountryRaises
    \/ CountryRequests
    \/ RequestsGet
    \/ RequestsGetRaises
    \/ HandleHTTPError
    \/ HandleSuccess
    \/ ParseReturn
    \/ AssembleReturn
    \/ AssembleRaises

Spec == Init /\ [][Next]_vars

(* --------------------------- claim vocabulary -------------------------- *)

\* get_parse_response is running (or about to return) for the current country
InParse == pc \in {"get", "status"}

\* the requests the remote side answered for the country at position c
LogOf(c) == SelectSeq(log, LAMBDA e : e.country = c)

UrlsOf(entries) == [k \in 1..Len(entries) |-> entries[k].url]

\* the records the remote side sent with the 2xx answers among entries
BodiesOf(entries) ==
    Concat([k \in 1..Len(entries) |->
              IF entries[k].ok THEN RemoteBody(entries[k].url) ELSE <<>>])

Failures(entries) == SelectSeq(entries, LAMBDA e : ~ e.ok)

\* the error entries the non-2xx answers among entries call for
ErrorsOf(entries) ==
    [k \in 1..Len(Failures(entries)) |->
        [url |-> Failures(entries)[k].url, error |-> ErrorBody]]

\* the answers get_parse_response has finished handling
Handled == SubSeq(LogOf(country_idx), 1, i)

KnownCountry(c) == c \in DOMAIN COUNTRY_AND_TERRITORY_CODES

\* the returned table, once the call has returned
Table == ret[1]

(* ------------------------------- C1 ------------------------------------ *)

\* C1: partial-failure isolation in get_parse_response. While it runs, the
\* records accumulated are exactly the records of the 2xx answers handled so
\* far and the errors are exactly one entry per non-2xx answer handled so far;
\* when it returns, every url of its argument has been requested, whatever the
\* earlier answers were.
C1_Isolation ==
    InParse =>
        /\ (pc = "get" /\ i = Len(urls)) => UrlsOf(LogOf(country_idx)) = urls
        /\ results = BodiesOf(Handled)
        /\ errors = ErrorsOf(Handled)

\* a run of get_parse_response about to return after a failing request
\* followed by a succeeding one that brought records
C1_Witness ==
    /\ pc = "get"
    /\ i = Len(urls)
    /\ i = 2
    /\ ~ Handled[1].ok
    /\ Handled[2].ok
    /\ Len(errors) = 1
    /\ results # <<>>

(* ------------------------------- C2 ------------------------------------ *)

\* C2: noaa_api_connector returns the table together with the errors of all
\* requests of all countries.
C2_ReturnsAllErrors ==
    (pc = "done" /\ Failures(log) # <<>>) =>
        /\ Len(ret) = 2
        /\ ret[2] = ErrorsOf(log)

(* ------------------------------- C3 ------------------------------------ *)

\* C3: with a list of known countries and no transport failure the call
\* raises nothing, whatever the answers to its requests are: it ends by
\* returning a table.
C3_AlwaysReturnsTable ==
    (countries # <<>> /\ \A k \in 1..Len(countries) : KnownCountry(countries[k])) =>
        exc \in {"None", "ConnectionError"}

(* ------------------------------- C4 ------------------------------------ *)

\* the least q with q * max_stations_req >= n
CeilDiv(n) ==
    CHOOSE q \in 0..n : q * max_stations_req >= n /\ (q - 1) * max_stations_req < n

\* C4: for n > 0 resolved stations get_request_urls builds ceil(n/50) urls
\* (one when n < 50), none with more than 50 stations, all but the last with
\* exactly 50, and their station lists concatenated are the resolved list.
C4_BatchPartition ==
    (InParse /\ Len(stations_list) > 0) =>
        /\ Len(urls) = CeilDiv(Len(stations_list))
        /\ Len(stations_list) < max_stations_req => Len(urls) = 1
        /\ \A j \in 1..Len(urls) : Len(urls[j].stations) <= max_stations_req
        /\ \A j \in 1..(Len(urls) - 1) : Len(urls[j].stations) = max_stations_req
        /\ Concat([j \in 1..Len(urls) |-> urls[j].stations]) = stations_list

\* 51 stations: a full request and a last one with the remaining station
C4_Witness ==
    /\ InParse
    /\ Len(stations_list) = max_stations_req + 1
    /\ Len(urls) = 2
    /\ Len(urls[2].stations) = 1

(* ------------------------------- C5 ------------------------------------ *)

\* C5 as claimed: once the unknown-country error is raised, no request of the
\* call has been issued.
C5_NoRequestOfTheCall == exc = "ValueError" => log = <<>>

\* C5 as amended: the error is raised when the loop reaches the unknown code;
\* no table is returned, no request is issued for that code or for any country
\* after it, and the loop never moves past an unknown code.
C5_UnknownCountryFailsFast ==
    /\ exc = "ValueError" =>
        /\ pc = "raised"
        /\ country_idx <= Len(countries)
        /\ ~ KnownCountry(countries[country_idx])
        /\ ret = <<>>
    /\ \A k \in 1..Len(countries) :
        ~ KnownCountry(countries[k]) =>
            /\ country_idx <= k
            /\ pc # "done"
            /\ \A n \in 1..Len(log) : log[n].country < k

\* the error raised at the second country, after a request of the first
C5_Witness ==
    /\ exc = "ValueError"
    /\ country_idx = 2
    /\ log # <<>>

(* ------------------------------- C6 ------------------------------------ *)

MetadataColumns == SelectSeq(PrefixColumns, LAMBDA c : c \notin {"DATE", "STATION"})

HasMetadata(s) == \E k \in 1..Len(MetaIds) : MetaIds[k] = s

\* C6: the returned table has one row per fetched record, in order; the row
\* has the record's station and date, the metadata of the stations row with
\* that ID when there is one and missing values when there is none.
C6_LeftJoin ==
    pc = "done" =>
        /\ Len(Table.rows) = Len(result)
        /\ \A r \in 1..Len(result) :
            /\ Table.rows[r]["STATION"] = Field(result[r], "STATION")
            /\ Table.rows[r]["DATE"] = Field(result[r], "DATE")
            /\ \A c \in Range(MetadataColumns) :
                Table.rows[r][c] =
                    IF HasMetadata(Field(result[r], "STATION"))
                        THEN MetaRow(Field(result[r], "STATION"))[c]
                        ELSE NaN

\* a table with a row that found its metadata and a row that did not
C6_Witness ==
    /\ pc = "done"
    /\ \E r \in 1..Len(result) : HasMetadata(Field(result[r], "STATION"))
    /\ \E r \in 1..Len(result) : ~ HasMetadata(Field(result[r], "STATION"))

(* ------------------------------- C7 ------------------------------------ *)

\* the metric is a key of some fetched record
Fetched(m) == \E r \in 1..Len(result) : m \in Range(Keys(result[r]))

Requested == IF metrics.isNone THEN DEFAULT_METRICS ELSE metrics.list

\* C7: the columns of the returned table are the nine fixed columns followed
\* by the requested (or default) metrics that some fetched record carries, in
\* the order requested; ID and STATE are no columns.
C7_ColumnOrder ==
    pc = "done" =>
        /\ Table.columns = PrefixColumns \o SelectSeq(Requested, Fetched)
        /\ "ID" \notin Range(Table.columns)
        /\ "STATE" \notin Range(Table.columns)
        /\ \A r \in 1..Len(Table.rows) :
            DOMAIN Table.rows[r] = Range(Table.columns)

\* SNOW, TMAX, PRCP requested; no record has SNOW, and the records carry
\* PRCP before TMAX
C7_Witness ==
    /\ pc = "done"
    /\ ~ metrics.isNone
    /\ Table.columns = PrefixColumns \o <<"TMAX", "PRCP">>

(* ------------------------------- C8 ------------------------------------ *)

\* the territory codes of the country that are keys of the territory map
FoundCodes(country) ==
    SelectSeq(COUNTRY_AND_TERRITORY_CODES[country],
              LAMBDA t : t \in DOMAIN TERRITORY_ACTIVE_STATIONS_MAP)

RECURSIVE StationsBefore(_, _)
StationsBefore(codes, j) ==
    IF j = 1 THEN 0
    ELSE StationsBefore(codes, j - 1)
         + Len(TERRITORY_ACTIVE_STATIONS_MAP[codes[j - 1]])

\* C8: the stations resolved for a known country are the station lists of
\* its territories one after the other, in territory order and then in listed
\* order, without the territories the map lacks and with every repetition.
C8_Resolve ==
    InParse =>
        LET codes == FoundCodes(countries[country_idx])
        IN  /\ Len(stations_list) = StationsBefore(codes, Len(codes) + 1)
            /\ \A j \in 1..Len(codes) :
                \A k \in 1..Len(TERRITORY_ACTIVE_STATIONS_MAP[codes[j]]) :
                    stations_list[StationsBefore(codes, j) + k]
                        = TERRITORY_ACTIVE_STATIONS_MAP[codes[j]][k]

\* country c2: territory t3 is skipped and a station of both t1 and t2 is
\* listed twice
C8_Witness ==
    /\ InParse
    /\ countries[country_idx] = "c2"
    /\ \E a, b \in 1..Len(stations_list) :
        a < b /\ stations_list[a] = stations_list[b]

(* ------------------------------- C9 ------------------------------------ *)

\* C9: every url is requested once, in the order of the list, and the next
\* one only after the answer to the one before is in results or errors; the
\* requests of a country all come before those of the next country.
C9_SingleAttemptInOrder ==
    /\ InParse =>
        /\ UrlsOf(LogOf(country_idx))
             = SubSeq(urls, 1, IF pc = "status" THEN i + 1 ELSE i)
        /\ Len(errors) = Len(Failures(Handled))
        /\ Len(results) = Len(BodiesOf(Handled))
    /\ \A a, b \in 1..Len(log) : a < b => log[a].country <= log[b].country
    /\ \A n \in 1..Len(log) : log[n].country <= country_idx
    /\ \A c \in 1..Len(countries) :
        (c < country_idx \/ (c = country_idx /\ pc = "get" /\ i = Len(urls))) =>
            UrlsOf(LogOf(c))
                = get_request_urls(countries[c], metrics,
                                   TERRITORY_ACTIVE_STATIONS_MAP)

\* two countries done, the first with a failed request, three requests in all
C9_Witness ==
    /\ pc = "country"
    /\ country_idx = 3
    /\ Len(log) >= 3
    /\ ~ log[1].ok
    /\ log[1].country = 1
    /\ log[Len(log)].country = 2

(* ------------------------------- C10 ----------------------------------- *)

\* C10: a request built with defaulted metrics asks for valid metric codes
\* only.
C10_DefaultMetricsValid ==
    metrics.isNone =>
        \A n \in 1..Len(log) : Range(log[n].url.dataTypes) \subseteq ValidMetrics

====
